---- MODULE Spec2Model ----
(***************************************************************************)
(* Rustq-Filterer (src/main.rs): a paired FASTQ filter.  Two mate streams  *)
(* are read in lockstep, four lines per record; every pair is checked by   *)
(* a chain of criteria and written to the kept or the filtered sink of     *)
(* each mate, and three counters are kept.                                 *)
(*                                                                         *)
(* Text is modelled byte by byte: a string is a sequence of one-character  *)
(* strings, a file is the sequence of its bytes.  An Option<usize> is a    *)
(* 1-based index with 0 for None; an Option<PathBuf> is a record with a    *)
(* "some" flag.                                                            *)
(***************************************************************************)
EXTENDS Integers, Sequences, FiniteSets, TLC

\* Bounds of the explored inputs.
MaxRecs == 2
MaxThreshold == 2

VARIABLES
    i1, i2,                 \* contents of the two input files (args.i1, args.i2)
    args,                   \* Cli: len_threshold, remove_tiles, remove_reads
    r1, r2,                 \* FastqHandler of each mate
    rm_tiles, rm_reads,     \* HashSet<String>
    criteria,               \* Vec of check functions, by name
    read_pairs_checked,
    read_pairs_removed,
    read_pairs_remaining,
    pc,                     \* "Running" | "Finished" | "Panicked"
    stats,                  \* what write_stats_file did
    decisions               \* history: result of check_reads for every pair processed

vars == <<i1, i2, args, r1, r2, rm_tiles, rm_reads, criteria, read_pairs_checked,
          read_pairs_removed, read_pairs_remaining, pc, stats, decisions>>

-----------------------------------------------------------------------------
\* Strings

Range(s) == {s[i] : i \in DOMAIN s}

RECURSIVE Flatten(_)
Flatten(ss) == IF ss = <<>> THEN <<>> ELSE Head(ss) \o Flatten(Tail(ss))

\* str::find(pat) for a one-character pattern: index of the first match, 0 for None.
find(s, c) ==
    IF \E i \in DOMAIN s : s[i] = c
    THEN CHOOSE i \in DOMAIN s : s[i] = c /\ \A j \in 1..(i - 1) : s[j] # c
    ELSE 0

\* str::split(pat) for a one-character pattern, collected.
RECURSIVE split(_, _)
split(s, c) ==
    LET i == find(s, c)
    IN  IF i = 0 THEN <<s>>
        ELSE <<SubSeq(s, 1, i - 1)>> \o split(SubSeq(s, i + 1, Len(s)), c)

\* BufRead::read_line on the unread bytes: the bytes up to and including the
\* first newline, or all of them when there is none; empty at end of file.
read_line(bytes) ==
    LET nl == find(bytes, "\n")
    IN  IF nl = 0 THEN bytes ELSE SubSeq(bytes, 1, nl)

\* BufRead::lines: the lines without their terminator ("\n" or "\r\n").
RECURSIVE lines(_)
lines(bytes) ==
    IF bytes = <<>> THEN <<>>
    ELSE LET l == read_line(bytes)
             noLf == IF l[Len(l)] = "\n" THEN SubSeq(l, 1, Len(l) - 1) ELSE l
             noCr == IF noLf # <<>> /\ l[Len(l)] = "\n" /\ noLf[Len(noLf)] = "\r"
                     THEN SubSeq(noLf, 1, Len(noLf) - 1) ELSE noLf
         IN  <<noCr>> \o lines(SubSeq(bytes, Len(l) + 1, Len(bytes)))

-----------------------------------------------------------------------------
\* FastqEntry and FastqHandler

FastqEntry_new ==
    [id |-> <<>>, seq |-> <<>>, strand |-> <<>>, qual |-> <<>>,
     tile_id |-> <<>>, read_id |-> <<>>]

FastqHandler_new(input_file) ==
    [reader |-> input_file, mask |-> FastqEntry_new,
     output_file |-> <<>>, filtered_file |-> <<>>]

\* read_entry: the handler afterwards and what the call did: "true", "false",
\* or "panic" (an unwrap on None).
read_entry_skips_bad_header(h) ==
    LET id     == read_line(h.reader)
        rest1  == SubSeq(h.reader, Len(id) + 1, Len(h.reader))
        seq    == read_line(rest1)
        rest2  == SubSeq(rest1, Len(seq) + 1, Len(rest1))
        strand == read_line(rest2)
        rest3  == SubSeq(rest2, Len(strand) + 1, Len(rest2))
        qual   == read_line(rest3)
        rest4  == SubSeq(rest3, Len(qual) + 1, Len(rest3))
        m      == [id |-> id, seq |-> seq, strand |-> strand, qual |-> qual,
                   tile_id |-> <<>>, read_id |-> <<>>]
        h4     == [h EXCEPT !.reader = rest4, !.mask = m]
        space  == find(id, " ")
        read_id == SubSeq(id, 1, space - 1)
        parts  == split(read_id, ":")
    IN  IF id # <<>> /\ space # 0 /\ Len(parts) >= 5
        THEN [h |-> [h4 EXCEPT !.mask.tile_id = parts[5], !.mask.read_id = read_id],
              ret |-> "true"]
        ELSE [h |-> h4, ret |-> "false"]

read_entry(h) ==
    LET id     == read_line(h.reader)
        rest1  == SubSeq(h.reader, Len(id) + 1, Len(h.reader))
        seq    == read_line(rest1)
        rest2  == SubSeq(rest1, Len(seq) + 1, Len(rest1))
        strand == read_line(rest2)
        rest3  == SubSeq(rest2, Len(strand) + 1, Len(rest2))
        qual   == read_line(rest3)
        rest4  == SubSeq(rest3, Len(qual) + 1, Len(rest3))
        m      == [id |-> id, seq |-> seq, strand |-> strand, qual |-> qual,
                   tile_id |-> <<>>, read_id |-> <<>>]
        h4     == [h EXCEPT !.reader = rest4, !.mask = m]
        space  == find(id, " ")
        read_id == SubSeq(id, 1, space - 1)
        parts  == split(read_id, ":")
    IN  IF id # <<>>
        THEN IF space = 0 THEN [h |-> h4, ret |-> "panic"]
             ELSE IF Len(parts) < 5 THEN [h |-> h4, ret |-> "panic"]
             ELSE [h |-> [h4 EXCEPT !.mask.tile_id = parts[5], !.mask.read_id = read_id],
                   ret |-> "true"]
        ELSE [h |-> h4, ret |-> "false"]

output_entry(h) ==
    [h EXCEPT !.output_file = @ \o h.mask.id \o h.mask.seq \o h.mask.strand \o h.mask.qual]

filter_entry_to_output_file(h) ==
    [h EXCEPT !.output_file = @ \o h.mask.id \o h.mask.seq \o h.mask.strand \o h.mask.qual]

filter_entry(h) ==
    [h EXCEPT !.filtered_file = @ \o h.mask.id \o h.mask.seq \o h.mask.strand \o h.mask.qual]

-----------------------------------------------------------------------------
\* FastqPairChecker

build_rm_tiles(input_tiles) == Range(input_tiles)

build_rm_reads_without_sigil(input_reads) ==
    {split(l, " ")[1] : l \in Range(lines(input_reads))}

build_rm_reads(input_reads) ==
    {<<"@">> \o split(l, " ")[1] : l \in Range(lines(input_reads))}

FastqPairChecker_criteria(a) ==
    <<"check_read">>
    \o (IF a.remove_tiles # <<>> THEN <<"tile_check_read">> ELSE <<>>)
    \o (IF a.remove_reads.some THEN <<"id_check_read">> ELSE <<>>)

check_read(h1, h2, a) ==
    Len(h1.mask.seq) > a.len_threshold /\ Len(h2.mask.seq) > a.len_threshold

tile_check_read(h1, h2, tiles) ==
    IF h1.mask.tile_id \in tiles THEN FALSE ELSE TRUE

id_check_read_either_mate(h1, h2, reads) ==
    IF h1.mask.read_id \in reads \/ h2.mask.read_id \in reads THEN FALSE ELSE TRUE

id_check_read(h1, h2, reads) ==
    IF h1.mask.read_id \in reads THEN FALSE ELSE TRUE

check_func(name, h1, h2, a, tiles, reads) ==
    CASE name = "check_read"      -> check_read(h1, h2, a)
      [] name = "tile_check_read" -> tile_check_read(h1, h2, tiles)
      [] name = "id_check_read"   -> id_check_read(h1, h2, reads)

check_reads(h1, h2, a, tiles, reads, crit) ==
    \A k \in DOMAIN crit : check_func(crit[k], h1, h2, a, tiles, reads)

\* write_stats_file: stats_file is whether a destination is configured, fs what the
\* file system does with it.  File::create's error is returned with "?", a failed
\* write panics in expect.
write_stats_file(stats_file, fs) ==
    IF stats_file
    THEN CASE fs = "ok"          -> "written"
           [] fs = "create_fails" -> "Err"
           [] fs = "write_fails"  -> "panic"
    ELSE "none"

either_read(e1, e2) == e1.ret = "true" \/ e2.ret = "true"

\* `if read_1 && read_2`
both_read(e1, e2) == e1.ret = "true" /\ e2.ret = "true"

-----------------------------------------------------------------------------
\* Inputs

H1 == <<"@", "a", ":", "b", ":", "c", ":", "d", ":", "1", " ", "x", "\n">>
H2 == <<"@", "a", ":", "b", ":", "c", ":", "d", ":", "2", " ", "x", "\n">>
HNoSpace == <<"@", "a", ":", "b", ":", "c", ":", "d", ":", "1", "\n">>
HFewFields == <<"@", "a", ":", "b", " ", "x", "\n">>

SeqA == <<"A", "\n">>
SeqAC == <<"A", "C", "\n">>
Plus == <<"+", "\n">>

Rec(h, s) == h \o s \o Plus \o [k \in DOMAIN s |-> IF s[k] = "\n" THEN "\n" ELSE "I"]

\* The whole records of each mate: well-formed headers.
Mate1Recs == {Rec(H1, SeqA), Rec(H2, SeqAC)}
Mate2Recs == {Rec(H1, SeqAC), Rec(H2, SeqA)}

\* What may follow them: nothing, a record cut short by the end of the file after
\* its sequence line, or a record with a malformed header (nothing of a stream is
\* read after that one).
Tails == {<<>>, H1 \o SeqAC, Rec(HNoSpace, SeqAC), Rec(HFewFields, SeqAC)}

Streams(recs) ==
    {Flatten(rs) \o t : rs \in UNION {[1..n -> recs] : n \in 0..MaxRecs}, t \in Tails}

\* The exclusion file "a:b:c:d:2 n\na:b:c:d:1\tn\r\nq".
ExclFile ==
    <<"a", ":", "b", ":", "c", ":", "d", ":", "2", " ", "n", "\n",
      "a", ":", "b", ":", "c", ":", "d", ":", "1", "\t", "n", "\r", "\n",
      "q">>

CliArgs ==
    [len_threshold : 1..MaxThreshold,
     remove_tiles  : {<<>>, << <<"2">> >>},
     remove_reads  : {[some |-> FALSE, file |-> <<>>]}
                     \cup {[some |-> TRUE, file |-> ExclFile]}]

-----------------------------------------------------------------------------
\* The state after FastqPairChecker::new

Init ==
    /\ i1 \in Streams(Mate1Recs)
    /\ i2 \in Streams(Mate2Recs)
    /\ args \in CliArgs
    /\ r1 = FastqHandler_new(i1)
    /\ r2 = FastqHandler_new(i2)
    /\ rm_tiles = build_rm_tiles(args.remove_tiles)
    /\ rm_reads = IF args.remove_reads.some
                  THEN build_rm_reads(args.remove_reads.file) ELSE {}
    /\ criteria = FastqPairChecker_criteria(args)
    /\ read_pairs_checked = 0
    /\ read_pairs_removed = 0
    /\ read_pairs_remaining = 0
    /\ pc = "Running"
    /\ stats = "pending"
    /\ decisions = <<>>

count_pair_removed_not_counted(ok) ==
    /\ read_pairs_checked' = read_pairs_checked + 1
    /\ read_pairs_remaining' = IF ok THEN read_pairs_remaining + 1 ELSE read_pairs_remaining
    /\ UNCHANGED read_pairs_removed

\* The counters of a pair checked with result ok.
count_pair(ok) ==
    /\ read_pairs_checked' = read_pairs_checked + 1
    /\ IF ~ok
       THEN /\ read_pairs_removed' = read_pairs_removed + 1
            /\ UNCHANGED read_pairs_remaining
       ELSE /\ read_pairs_remaining' = read_pairs_remaining + 1
            /\ UNCHANGED read_pairs_removed

\* One iteration of the loop of run, by what the two read_entry calls did.
\* r2.read_entry is not called when r1.read_entry panics.

\* Both records present: count the pair, check it, route it.
RunPair ==
    /\ pc = "Running"
    /\ LET e1 == read_entry(r1)
           e2 == read_entry(r2)
           ok == check_reads(e1.h, e2.h, args, rm_tiles, rm_reads, criteria)
       IN  /\ e1.ret # "panic" /\ e2.ret # "panic"
           /\ both_read(e1, e2)
           /\ count_pair(ok)
           /\ r1' = IF ~ok THEN filter_entry(e1.h) ELSE output_entry(e1.h)
           /\ r2' = IF ~ok THEN filter_entry(e2.h) ELSE output_entry(e2.h)
           /\ decisions' = Append(decisions, ok)
    /\ UNCHANGED <<i1, i2, args, rm_tiles, rm_reads, criteria, pc, stats>>

\* A record absent: leave the loop, write the stats file, return Ok(()).  The
\* Result of write_stats_file is dropped by run.
RunFinish ==
    /\ pc = "Running"
    /\ LET e1 == read_entry(r1)
           e2 == read_entry(r2)
       IN  /\ e1.ret # "panic" /\ e2.ret # "panic"
           /\ ~both_read(e1, e2)
           /\ r1' = e1.h
           /\ r2' = e2.h
    /\ pc' = "Finished"
    /\ \E stats_file \in BOOLEAN, fs \in {"ok", "create_fails", "write_fails"} :
           stats' = write_stats_file(stats_file, fs)
    /\ UNCHANGED <<i1, i2, args, rm_tiles, rm_reads, criteria, read_pairs_checked,
                   read_pairs_removed, read_pairs_remaining, decisions>>

\* An unwrap in read_entry panics: the process ends there.
RunPanic ==
    /\ pc = "Running"
    /\ LET e1 == read_entry(r1)
           e2 == read_entry(r2)
       IN  \/ /\ e1.ret = "panic"
              /\ r1' = e1.h
              /\ r2' = r2
           \/ /\ e1.ret # "panic" /\ e2.ret = "panic"
              /\ r1' = e1.h
              /\ r2' = e2.h
    /\ pc' = "Panicked"
    /\ UNCHANGED <<i1, i2, args, rm_tiles, rm_reads, criteria, read_pairs_checked,
                   read_pairs_removed, read_pairs_remaining, stats, decisions>>

Next == RunPair \/ RunFinish \/ RunPanic

Spec == Init /\ [][Next]_vars

\* How the process ends: main returns what run returns, unless something panicked.
Exit ==
    IF pc = "Panicked" \/ stats = "panic" THEN "panic"
    ELSE IF pc = "Finished" THEN "Ok"
    ELSE "running"

-----------------------------------------------------------------------------
\* Vocabulary of the properties, computed from the files themselves

Min(a, b) == IF a <= b THEN a ELSE b

Last(s) == s[Len(s)]

\* The lines of a text, terminators included: LinesFrom scans from position k,
\* the line under way having begun at position start.
RECURSIVE LinesFrom(_, _, _)
LinesFrom(text, start, k) ==
    IF k > Len(text)
    THEN IF start <= Len(text) THEN <<SubSeq(text, start, Len(text))>> ELSE <<>>
    ELSE IF text[k] = "\n"
         THEN <<SubSeq(text, start, k)>> \o LinesFrom(text, k + 1, k + 1)
         ELSE LinesFrom(text, start, k + 1)

RawLines(text) == LinesFrom(text, 1, 1)

\* The line a text starts with, its terminator included.
FirstLine(text) == IF text = <<>> THEN <<>> ELSE Head(RawLines(text))

\* The bytes of the k-th group of four lines, of the lines ls of a file.
RawRecord(ls, k) == Flatten(SubSeq(ls, 4 * k - 3, Min(4 * k, Len(ls))))

\* The bytes of the records of the pairs decided `want`, in input order.
Routed(file, want) ==
    LET ls == RawLines(file)
    IN  Flatten([k \in DOMAIN decisions |->
                    IF decisions[k] = want THEN RawRecord(ls, k) ELSE <<>>])

\* The number of sequence characters on a sequence line.
Bases(line) == Cardinality({k \in DOMAIN line : line[k] \notin {"\n", "\r"}})

\* A header line that has no space, or fewer than five colon-delimited fields
\* before its first space.
Malformed(line) ==
    /\ line # <<>>
    /\ LET spaces == {k \in DOMAIN line : line[k] = " "}
       IN  \/ spaces = {}
           \/ Cardinality({k \in DOMAIN line :
                  line[k] = ":" /\ \A j \in spaces : k < j}) < 4

\* A stream of whole records, each of four terminated lines under a well-formed header.
WellFormedStream(file) ==
    LET ls == RawLines(file)
    IN  /\ Len(ls) % 4 = 0
        /\ \A k \in DOMAIN ls : Last(ls[k]) = "\n" /\ Len(ls[k]) > 1
        /\ \A k \in DOMAIN ls : k % 4 = 1 => ~Malformed(ls[k])

NumRecords(file) == Len(RawLines(file)) \div 4

\* How many records of its file a handler has read so far (a record begun counts).
RecordsRead(file, h) ==
    (Len(RawLines(SubSeq(file, 1, Len(file) - Len(h.reader)))) + 3) \div 4

\* The masks hold the pair the last step processed.
PairProcessed == pc = "Running" /\ read_pairs_checked >= 1

Counters == <<read_pairs_checked, read_pairs_removed, read_pairs_remaining>>

Sinks == <<r1.output_file, r1.filtered_file, r2.output_file, r2.filtered_file>>

\* The lines of a text file without their terminators.
TextLines(text) ==
    LET ls == RawLines(text)
        strip(l) == IF Last(l) # "\n" THEN l
                    ELSE IF Len(l) >= 2 /\ l[Len(l) - 1] = "\r" THEN SubSeq(l, 1, Len(l) - 2)
                    ELSE SubSeq(l, 1, Len(l) - 1)
    IN  {strip(ls[k]) : k \in DOMAIN ls}

\* The token of a line up to its first character of `stops`.
Token(line, stops) ==
    LET at == {k \in DOMAIN line : line[k] \in stops}
    IN  IF at = {} THEN line
        ELSE SubSeq(line, 1, (CHOOSE k \in at : \A j \in at : k <= j) - 1)

Whitespace == {" ", "\t", "\r", "\n", "\f"}

StartsWith(s, prefix) == Len(s) >= Len(prefix) /\ SubSeq(s, 1, Len(prefix)) = prefix

-----------------------------------------------------------------------------
\* C1: once a pair has been processed, and when the run has finished, the pairs
\* checked are the pairs removed plus the pairs remaining.
C1_CountersAddUp ==
    (read_pairs_checked >= 1 \/ pc = "Finished")
        => read_pairs_checked = read_pairs_removed + read_pairs_remaining

C1_Witness ==
    pc = "Finished" /\ read_pairs_removed >= 1 /\ read_pairs_remaining >= 1

\* C2: the kept sink of each mate holds exactly the bytes of that mate's records
\* of the accepted pairs, the filtered sink those of the rejected pairs, in input
\* order; one decision per pair counted routes both mates.
C2_SinksHoldRawRecords ==
    /\ Len(decisions) = read_pairs_checked
    /\ r1.output_file = Routed(i1, TRUE)
    /\ r1.filtered_file = Routed(i1, FALSE)
    /\ r2.output_file = Routed(i2, TRUE)
    /\ r2.filtered_file = Routed(i2, FALSE)

C2_Witness ==
    /\ pc = "Finished"
    /\ decisions = <<FALSE, TRUE>>
    /\ r1.output_file # <<>> /\ r1.filtered_file # <<>>
    /\ r1.output_file # r2.output_file

\* C3: without exclusion sets, a pair with a mate whose sequence has exactly
\* threshold characters is rejected, and a pair whose sequences both have
\* threshold + 1 characters is accepted.  (Stated of pairs of whole records.)
C3_StrictLengthBoundary ==
    (/\ PairProcessed /\ args.remove_tiles = <<>> /\ ~args.remove_reads.some
     /\ r1.mask.qual # <<>> /\ r2.mask.qual # <<>>)
        => /\ (\/ Bases(r1.mask.seq) = args.len_threshold
               \/ Bases(r2.mask.seq) = args.len_threshold) => ~Last(decisions)
           /\ (/\ Bases(r1.mask.seq) = args.len_threshold + 1
               /\ Bases(r2.mask.seq) = args.len_threshold + 1) => Last(decisions)

\* C4 as stated: with n1 # n2 well-formed records the run counts min(n1, n2)
\* pairs and reads no record of either stream beyond position min(n1, n2).
C4_NeverReadsBeyondMin ==
    (WellFormedStream(i1) /\ WellFormedStream(i2) /\ NumRecords(i1) # NumRecords(i2))
        => LET m == Min(NumRecords(i1), NumRecords(i2))
           IN  /\ pc = "Finished" => read_pairs_checked = m
               /\ RecordsRead(i1, r1) <= m
               /\ RecordsRead(i2, r2) <= m

\* C4 amended: with n1 # n2 well-formed records the run counts min(n1, n2) pairs
\* and ends normally having read exactly one record of the longer stream beyond
\* position min(n1, n2), which it neither counts nor routes; it never reads more.
C4_ReadsOneBeyondMin ==
    (WellFormedStream(i1) /\ WellFormedStream(i2) /\ NumRecords(i1) # NumRecords(i2))
        => LET m == Min(NumRecords(i1), NumRecords(i2))
           IN  /\ pc # "Panicked"
               /\ read_pairs_checked <= m
               /\ Len(decisions) = read_pairs_checked
               /\ RecordsRead(i1, r1) <= m + 1
               /\ RecordsRead(i2, r2) <= m + 1
               /\ pc = "Finished" =>
                    /\ read_pairs_checked = m
                    /\ RecordsRead(i1, r1) = Min(NumRecords(i1), m + 1)
                    /\ RecordsRead(i2, r2) = Min(NumRecords(i2), m + 1)

C4_Witness ==
    /\ WellFormedStream(i1) /\ WellFormedStream(i2)
    /\ NumRecords(i1) = 2 /\ NumRecords(i2) = 1
    /\ pc = "Finished" /\ read_pairs_checked = 1
    /\ RecordsRead(i1, r1) = 2

\* C5: the decision on a pair is the conjunction of the length check, of mate-1's
\* tile not being excluded when tiles are configured, and of mate-1's read id not
\* being excluded when an exclusion file is configured; it is the same whatever
\* the tile id and read id of mate 2.
C5_DecisionIsConjunction ==
    PairProcessed =>
        /\ Last(decisions) =
             (/\ Len(r1.mask.seq) > args.len_threshold
              /\ Len(r2.mask.seq) > args.len_threshold
              /\ args.remove_tiles # <<>> => r1.mask.tile_id \notin Range(args.remove_tiles)
              /\ args.remove_reads.some => r1.mask.read_id \notin rm_reads)
        /\ \A t \in rm_tiles \cup {r1.mask.tile_id, <<"9">>} :
           \A id \in rm_reads \cup {r1.mask.read_id, <<"@", "z">>} :
               check_reads(r1, [r2 EXCEPT !.mask.tile_id = t, !.mask.read_id = id],
                           args, rm_tiles, rm_reads, criteria) = Last(decisions)

\* Mate 2's read id is excluded, mate 1's is not, and the pair is accepted.
C5_Witness ==
    /\ PairProcessed
    /\ args.remove_reads.some /\ args.remove_tiles # <<>>
    /\ r2.mask.read_id \in rm_reads /\ r2.mask.tile_id \in rm_tiles
    /\ r1.mask.read_id \notin rm_reads
    /\ Last(decisions)

\* C6: read_entry reports "no more records" whenever one of its four line reads
\* finds the end of the stream, so a record cut short by the end of the file is
\* never processed: all four lines of both records of a processed pair were read.
C6_EofInAnyLineIsNoRecord ==
    PairProcessed =>
        \A h \in {r1, r2} :
            h.mask.id # <<>> /\ h.mask.seq # <<>> /\ h.mask.strand # <<>> /\ h.mask.qual # <<>>

\* C7: a step that reads a malformed header from either stream aborts the run:
\* the counters and the sinks stay as they were, and nothing happens afterwards.
C7_MalformedHeaderAborts ==
    [][/\ pc # "Panicked"
       /\ (Malformed(FirstLine(r1.reader)) \/ Malformed(FirstLine(r2.reader)))
            => /\ pc' = "Panicked"
               /\ Exit' = "panic"
               /\ Counters' = Counters
               /\ Sinks' = Sinks
               /\ decisions' = decisions]_vars

C7_Witness ==
    /\ pc = "Panicked"
    /\ read_pairs_removed >= 1 /\ read_pairs_remaining >= 1
    /\ r1.output_file # <<>> /\ r2.filtered_file # <<>>

C9_StatsFailureIsFatal ==
    stats \in {"Err", "panic"} => Exit = "panic"

\* C10 as stated: a step in which a stream has no record left ends the loop
\* normally, counting and routing nothing, whatever the other stream holds.
C10_EndOfEitherStreamFinishes ==
    [][(pc = "Running" /\ (r1.reader = <<>> \/ r2.reader = <<>>))
          => /\ pc' = "Finished"
             /\ Counters' = Counters
             /\ Sinks' = Sinks]_vars

\* C10 amended: such a step ends the loop normally, counting and routing nothing,
\* when the other stream holds nothing or a record under a well-formed header;
\* when the other stream holds a malformed header the run aborts instead.
C10_EndOfEitherStreamFinishesOrAborts ==
    [][(pc = "Running" /\ (r1.reader = <<>> \/ r2.reader = <<>>))
          => /\ pc' = IF Malformed(FirstLine(r1.reader)) \/ Malformed(FirstLine(r2.reader))
                      THEN "Panicked" ELSE "Finished"
             /\ Counters' = Counters
             /\ Sinks' = Sinks
             /\ decisions' = decisions]_vars

\* Mate 1 is exhausted while mate 2 still held a well-formed record, read and dropped.
C10_Witness ==
    /\ pc = "Finished"
    /\ read_pairs_checked >= 1
    /\ r1.mask.id = <<>>
    /\ r2.mask.id # <<>> /\ r2.mask.read_id # <<>>
    /\ Len(RawLines(i2)) = 4 * (read_pairs_checked + 1)

====
